---- MODULE Spec2Model ----
(***************************************************************************)
(* A model of async_decimal_clock.py: the Clock and DecimalClock classes,  *)
(* the conversion from standard to French decimal time in binary64         *)
(* floating point, the string formatting of both clocks, and the asyncio   *)
(* display loop of main() with interrupt delivery.                         *)
(***************************************************************************)
EXTENDS Integers, Sequences, FiniteSets, TLC

(***************************************************************************)
(* Natural numbers of arbitrary size, as little-endian sequences of limbs  *)
(* in base 1024 (<<>> is zero).  They carry the 53-bit significands of     *)
(* Python floats and the exact intermediate results of float operations.   *)
(***************************************************************************)
LimbBits == 10

Base == 2 ^ LimbBits

Pow2(k) == 2 ^ k

\* a local variable: the value v, computed once, named in the rest K
Bind(v, K(_)) == K(v)

RECURSIVE BNorm(_)
BNorm(a) ==
  IF a = <<>> THEN <<>>
  ELSE IF a[Len(a)] = 0 THEN BNorm(SubSeq(a, 1, Len(a) - 1)) ELSE a

RECURSIVE FromNat(_)
FromNat(n) == IF n = 0 THEN <<>> ELSE <<n % Base>> \o FromNat(n \div Base)

RECURSIVE ToNat(_)
ToNat(a) == IF a = <<>> THEN 0 ELSE a[1] + Base * ToNat(Tail(a))

Lo(a) == IF a = <<>> THEN 0 ELSE a[1]

Rest(a) == IF a = <<>> THEN <<>> ELSE Tail(a)

RECURSIVE BAddC(_, _, _)
BAddC(a, b, c) ==
  IF a = <<>> /\ b = <<>> THEN (IF c = 0 THEN <<>> ELSE <<c>>)
  ELSE LET x == Lo(a) + Lo(b) + c
       IN  <<x % Base>> \o BAddC(Rest(a), Rest(b), x \div Base)

BAdd(a, b) == BAddC(a, b, 0)

\* a - b for a >= b
RECURSIVE BSubB(_, _, _)
BSubB(a, b, br) ==
  IF a = <<>> THEN <<>>
  ELSE LET x == Lo(a) - Lo(b) - br
       IN  IF x < 0 THEN <<x + Base>> \o BSubB(Rest(a), Rest(b), 1)
           ELSE <<x>> \o BSubB(Rest(a), Rest(b), 0)

BSub(a, b) == BNorm(BSubB(a, b, 0))

\* -1, 0, 1 as a < b, a = b, a > b (both normalised)
RECURSIVE BCmpAt(_, _, _)
BCmpAt(a, b, i) ==
  IF i = 0 THEN 0
  ELSE IF a[i] < b[i] THEN -1
  ELSE IF a[i] > b[i] THEN 1
  ELSE BCmpAt(a, b, i - 1)

BCmp(a, b) ==
  IF Len(a) < Len(b) THEN -1
  ELSE IF Len(a) > Len(b) THEN 1
  ELSE BCmpAt(a, b, Len(a))

\* a * k + c for a small k
RECURSIVE BMulSmallC(_, _, _)
BMulSmallC(a, k, c) ==
  IF a = <<>> THEN FromNat(c)
  ELSE LET x == a[1] * k + c
       IN  <<x % Base>> \o BMulSmallC(Tail(a), k, x \div Base)

BMulSmall(a, k) == BNorm(BMulSmallC(a, k, 0))

RECURSIVE BMul(_, _)
BMul(a, b) ==
  IF b = <<>> \/ a = <<>> THEN <<>>
  ELSE LET hi == BMul(a, Tail(b))
       IN  BNorm(BAdd(BMulSmall(a, b[1]), IF hi = <<>> THEN <<>> ELSE <<0>> \o hi))

\* <<quotient, remainder>> of a by a small d, from the highest limb down
RECURSIVE BDivStep(_, _, _, _)
BDivStep(a, d, i, r) ==
  IF i = 0 THEN <<<<>>, r>>
  ELSE LET cur  == r * Base + a[i]
           rest == BDivStep(a, d, i - 1, cur % d)
       IN  <<Append(rest[1], cur \div d), rest[2]>>

BDivSmall(a, d) ==
  LET qr == BDivStep(a, d, Len(a), 0) IN <<BNorm(qr[1]), qr[2]>>

RECURSIVE BitLenSmall(_)
BitLenSmall(n) == IF n = 0 THEN 0 ELSE 1 + BitLenSmall(n \div 2)

BBitLen(a) ==
  IF a = <<>> THEN 0 ELSE (Len(a) - 1) * LimbBits + BitLenSmall(a[Len(a)])

Zeros(n) == [i \in 1..n |-> 0]

\* a * 2^k
BShl(a, k) ==
  IF a = <<>> THEN <<>>
  ELSE BMulSmall(Zeros(k \div LimbBits) \o a, Pow2(k % LimbBits))

\* floor(a / 2^k)
BShr(a, k) ==
  IF k \div LimbBits >= Len(a) THEN <<>>
  ELSE BDivSmall(SubSeq(a, k \div LimbBits + 1, Len(a)), Pow2(k % LimbBits))[1]

BOdd(a) == Lo(a) % 2 = 1

(***************************************************************************)
(* Python floats (IEEE 754 binary64, round to nearest, ties to even) as    *)
(* records: the value is sg * m * 2^e with m below 2^53.  Exponent range   *)
(* and subnormals play no part for times of day.                           *)
(***************************************************************************)
Precision == 53

FZero == [sg |-> 1, m |-> <<>>, e |-> 0]

FromInt(n) == [sg |-> IF n < 0 THEN -1 ELSE 1,
               m  |-> FromNat(IF n < 0 THEN -n ELSE n),
               e  |-> 0]

\* the float nearest to sg * m * 2^e
FRound(sg, m, e) ==
  Bind(BBitLen(m) - Precision, LAMBDA k :
    IF k <= 0 THEN [sg |-> sg, m |-> m, e |-> e]
    ELSE Bind(BShr(m, k), LAMBDA q :
         Bind(BCmp(BSub(m, BShl(q, k)), BShl(<<1>>, k - 1)), LAMBDA half :
           [sg |-> sg,
            m  |-> IF half = 1 \/ (half = 0 /\ BOdd(q))
                   THEN BAdd(q, <<1>>) ELSE q,
            e  |-> e + k])))

FNeg(a) == [a EXCEPT !.sg = -a.sg]

FMul(a, b) == FRound(a.sg * b.sg, BMul(a.m, b.m), a.e + b.e)

FAdd(a, b) ==
  Bind(IF a.e < b.e THEN a.e ELSE b.e, LAMBDA emin :
  Bind(BShl(a.m, a.e - emin), LAMBDA ma :
  Bind(BShl(b.m, b.e - emin), LAMBDA mb :
  Bind(BCmp(ma, mb), LAMBDA cmp :
    IF a.sg # b.sg /\ cmp = 0 THEN FZero
    ELSE FRound(IF a.sg = b.sg \/ cmp = 1 THEN a.sg ELSE b.sg,
                IF a.sg = b.sg THEN BNorm(BAdd(ma, mb))
                ELSE IF cmp = 1 THEN BSub(ma, mb) ELSE BSub(mb, ma),
                emin)))))

FSub(a, b) == FAdd(a, FNeg(b))

\* extra quotient bits kept by a division before rounding
DivGuard == 8 * LimbBits

\* a / b for a divisor b that is a positive integer below 2^21 (all the
\* divisors of the program are: 1000000, 86400, 10000, 100)
FDiv(a, b) ==
  Bind(BDivSmall(BShl(a.m, DivGuard), ToNat(BShl(b.m, b.e))), LAMBDA qr :
    FRound(a.sg * b.sg,
           BNorm(BAdd(BShl(qr[1], 1), IF qr[2] = 0 THEN <<>> ELSE <<1>>)),
           a.e - DivGuard - 1))

\* math.floor of a float, as an integer
FFloor(a) ==
  IF a.m = <<>> THEN 0
  ELSE IF a.e >= 0 THEN a.sg * ToNat(BShl(a.m, a.e))
  ELSE Bind(BShr(a.m, -a.e), LAMBDA q :
         IF a.sg = 1 THEN ToNat(q)
         ELSE -(ToNat(q) + (IF BShl(q, -a.e) = a.m THEN 0 ELSE 1)))

(***************************************************************************)
(* DecimalClock's unit tables (the members the conversion reads).          *)
(***************************************************************************)
StandardDay_SECONDS == 86400

StandardHour_SECONDS == 3600

StandardMinute_SECONDS == 60

DecimalDay_SECONDS == 100000

DecimalDay_MINUTES == 10000

DecimalHour_SECONDS == 10000

DecimalHour_MINUTES == 100

DecimalMinute_SECONDS == 100

MicrosPerSecond == 1000000

\* standard_to_seconds with the minutes weighted as hours
standard_to_seconds_mut(dt) ==
  LET hours   == FMul(FromInt(dt[1]), FromInt(StandardHour_SECONDS))
      minutes == FMul(FromInt(dt[2]), FromInt(StandardHour_SECONDS))
      seconds == FAdd(FromInt(dt[3]), FDiv(FromInt(dt[4]), FromInt(MicrosPerSecond)))
  IN  FAdd(FAdd(hours, minutes), seconds)

(***************************************************************************)
(* DecimalClock.standard_to_seconds: standard seconds since midnight of a  *)
(* tuple (hour, minute, second, microsecond), as a float.                  *)
(***************************************************************************)
standard_to_seconds(dt) ==
  LET hours   == FMul(FromInt(dt[1]), FromInt(StandardHour_SECONDS))
      minutes == FMul(FromInt(dt[2]), FromInt(StandardMinute_SECONDS))
      seconds == FAdd(FromInt(dt[3]), FDiv(FromInt(dt[4]), FromInt(MicrosPerSecond)))
  IN  FAdd(FAdd(hours, minutes), seconds)

\* standard_to_decimal with the hours taken in units of a decimal minute
standard_to_decimal_mut(dt) ==
  Bind(standard_to_seconds(dt), LAMBDA stn_secs :
  Bind(FMul(stn_secs, FDiv(FromInt(DecimalDay_SECONDS),
                           FromInt(StandardDay_SECONDS))), LAMBDA dec_secs0 :
  Bind(FFloor(FDiv(dec_secs0, FromInt(DecimalHour_MINUTES))), LAMBDA dec_hrs :
  Bind(FSub(dec_secs0, FMul(FromInt(DecimalHour_SECONDS),
                            FromInt(dec_hrs))), LAMBDA dec_secs1 :
  Bind(FFloor(FDiv(dec_secs1, FromInt(DecimalHour_MINUTES))), LAMBDA dec_mins :
  Bind(FFloor(FSub(dec_secs1, FMul(FromInt(DecimalMinute_SECONDS),
                                   FromInt(dec_mins)))), LAMBDA dec_secs :
    <<dec_hrs, dec_mins, dec_secs>>))))))

(***************************************************************************)
(* DecimalClock.standard_to_decimal: the decimal (hour, minute, second).   *)
(***************************************************************************)
standard_to_decimal(dt) ==
  Bind(standard_to_seconds(dt), LAMBDA stn_secs :
  Bind(FMul(stn_secs, FDiv(FromInt(DecimalDay_SECONDS),
                           FromInt(StandardDay_SECONDS))), LAMBDA dec_secs0 :
  Bind(FFloor(FDiv(dec_secs0, FromInt(DecimalDay_MINUTES))), LAMBDA dec_hrs :
  Bind(FSub(dec_secs0, FMul(FromInt(DecimalHour_SECONDS),
                            FromInt(dec_hrs))), LAMBDA dec_secs1 :
  Bind(FFloor(FDiv(dec_secs1, FromInt(DecimalHour_MINUTES))), LAMBDA dec_mins :
  Bind(FFloor(FSub(dec_secs1, FMul(FromInt(DecimalMinute_SECONDS),
                                   FromInt(dec_mins)))), LAMBDA dec_secs :
    <<dec_hrs, dec_mins, dec_secs>>))))))

(***************************************************************************)
(* Strings are sequences of one-character strings.                         *)
(***************************************************************************)
Digits == <<"0", "1", "2", "3", "4", "5", "6", "7", "8", "9">>

\* str(n) of an integer
RECURSIVE Str(_)
Str(n) ==
  IF n < 0 THEN <<"-">> \o Str(-n)
  ELSE IF n < 10 THEN <<Digits[n + 1]>>
  ELSE Str(n \div 10) \o <<Digits[(n % 10) + 1]>>

\* str.zfill(width): zeros on the left, after a leading sign
RECURSIVE zfill(_, _)
zfill(s, width) ==
  IF Len(s) >= width THEN s
  ELSE IF s # <<>> /\ s[1] = "-" THEN <<"-">> \o zfill(Tail(s), width - 1)
  ELSE zfill(<<"0">> \o s, width)

\* sep.join(parts)
RECURSIVE Join(_, _)
Join(sep, parts) ==
  IF parts = <<>> THEN <<>>
  ELSE IF Len(parts) = 1 THEN parts[1]
  ELSE parts[1] \o sep \o Join(sep, Tail(parts))

\* the slice seq[0:n]
Slice(seq, n) == SubSeq(seq, 1, IF Len(seq) < n THEN Len(seq) ELSE n)

\* Clock.__str__ on a clock whose current_time is cur
Clock_str(cur) ==
  LET fields == Slice(cur, 3)
  IN  Join(<<":">>, [i \in 1..Len(fields) |-> zfill(Str(fields[i]), 2)])

\* DecimalClock.__str__ on a clock whose current_time is the 4-tuple cur
DecimalClock_str(cur) ==
  Bind(standard_to_decimal(cur), LAMBDA to_decimal :
  Bind(Slice(to_decimal, 2), LAMBDA head :
    Join(<<":">>, [i \in 1..Len(head) |-> zfill(Str(head[i]), 2)])
      \o <<":">> \o zfill(Str(to_decimal[3]), 3)))

\* DecimalClock.__str__ raises IndexError when current_time is still ()
str_raises(cur) == Len(cur) < 4

(***************************************************************************)
(* The state of the running program.                                       *)
(***************************************************************************)
VARIABLES
  runner,        \* "sigint": asyncio.run handles the first SIGINT by cancelling
                 \* the main task; "legacy": every SIGINT raises KeyboardInterrupt
  interrupts,    \* interrupts delivered so far
  phase,         \* "run": asyncio.run drives main(); "cleanup": asyncio.run
                 \* cancels what is left; "module": back in the module's try
                 \* statement; "exited"
  pexc,          \* the exception asyncio.run raises into the module, or "none"
  exit_status,   \* the process exit status (-1 while the process lives)
  surfaced,      \* the unhandled error the process reports, or "none"
  exec,          \* what the thread executes: "loop" (the event loop itself),
                 \* "main", "std" or "dec"
  ready,         \* the event loop's queue of ready callbacks
  timer,         \* the timer of asyncio.sleep(0.2) is armed
  fut,           \* the futures main() awaits: the shields and the sleep
  mpc,           \* main()'s position
  mexc,          \* the exception in flight in main()'s finally block
  mres,          \* how the main task ended
  waiting,       \* the future the main task is suspended on
  must_cancel,   \* the main task's pending cancellation request
  tpc,           \* each tick task's position
  tcancel,       \* the tick tasks cancelled before their first step
  cbs,           \* the tick tasks a shield has put a done callback on
  ct,            \* the local ct of each do_tick
  now,           \* the wall clock, an index into TimeLine
  current_time,  \* current_time of standard_clock ("std") and decimal_clock ("dec")
  line,          \* the output line last printed, or NoLine
  line_src,      \* the current_time of both clocks when that line was printed
  line_ticks,    \* the state of both tick tasks when that line was printed
  cyc_renders,   \* lines printed since the last pair of tick tasks was created
  post_renders,  \* lines printed since the first interrupt
  post_spawns,   \* pairs of tick tasks created since the first interrupt
  conv           \* the conversion harness: inputs, results and position

envv   == <<runner, interrupts>>
procv  == <<phase, pexc, exit_status, surfaced>>
loopq  == <<exec, ready, timer, fut>>
mainv  == <<mpc, mexc, mres, waiting, must_cancel>>
tickv  == <<tpc, tcancel, cbs, ct>>
clockv == <<now, current_time>>
outv   == <<line, line_src, line_ticks, cyc_renders, post_renders, post_spawns>>
progv  == <<envv, procv, loopq, mainv, tickv, clockv, outv>>
vars   == <<progv, conv>>

\* the most interrupts delivered in one run
MaxInterrupts == 2

Tasks == {"std", "dec"}

\* the wall-clock readings datetime.now() can return, in order of time
TimeLine == << <<0, 0, 0, 0>>, <<11, 59, 59, 999999>>, <<12, 0, 0, 0>> >>

Readings == {TimeLine[i] : i \in 1..Len(TimeLine)}

\* DecimalClock.__str__ of a clock holding each reading of the wall clock,
\* computed once, as a set of pairs <<reading, string>>
decimal_strs == {<<r, DecimalClock_str(r)>> : r \in Readings}

\* str(decimal_clock) when decimal_clock.current_time is cur
decimal_str(cur) == (CHOOSE p \in decimal_strs : p[1] = cur)[2]

NoLine == [std |-> <<"-">>, dec |-> <<"-">>]

Outer(t) == IF t = "std" THEN "outer_std" ELSE "outer_dec"

DoneCb(t) == IF t = "std" THEN "std_done" ELSE "dec_done"

TaskDone(s) == s \in {"ok", "cancelled", "failed"}

(***************************************************************************)
(* The conversion harness: two readings t1 <= t2 of one day.               *)
(***************************************************************************)
Hours == {0, 12, 23}

Minutes == {0, 1, 59}

Seconds == {0, 40, 59}

Micros == {0, 223999, 224000, 999999}

Inputs == {<<h, m, s, u>> : h \in Hours, m \in Minutes, s \in Seconds, u \in Micros}

\* tuple comparison, as Python compares tuples of equal length
RECURSIVE TupleLess(_, _)
TupleLess(a, b) ==
  IF a = <<>> THEN FALSE
  ELSE IF a[1] # b[1] THEN a[1] < b[1]
  ELSE TupleLess(Tail(a), Tail(b))

TupleLeq(a, b) == a = b \/ TupleLess(a, b)

ConvOff == [pc |-> "off", t1 |-> <<>>, t2 |-> <<>>, d1 |-> <<>>, d2 |-> <<>>]

\* the program as asyncio.run(main()) starts: the main task is scheduled
ProgStart ==
  /\ interrupts = 0
  /\ phase = "run" /\ pexc = "none" /\ exit_status = -1 /\ surfaced = "none"
  /\ exec = "loop" /\ ready = <<"main">> /\ timer = FALSE
  /\ fut = [f \in {"outer_std", "outer_dec", "sleep"} |-> "none"]
  /\ mpc = "start" /\ mexc = "none" /\ mres = "none" /\ waiting = "none"
  /\ must_cancel = FALSE
  /\ tpc = [t \in Tasks |-> "none"] /\ tcancel = {} /\ cbs = {}
  /\ ct = [t \in Tasks |-> <<>>]
  /\ current_time = [t \in Tasks |-> <<>>]
  /\ line = NoLine /\ line_src = [t \in Tasks |-> <<>>]
  /\ line_ticks = [t \in Tasks |-> "none"]
  /\ cyc_renders = 0 /\ post_renders = 0 /\ post_spawns = 0

Init ==
  /\ runner \in {"legacy", "sigint"}
  /\ now \in 1..Len(TimeLine)
  /\ ProgStart
  /\ conv = ConvOff

InitConv ==
  /\ runner = "legacy"
  /\ now = 1
  /\ ProgStart
  /\ \E a \in Inputs, b \in Inputs :
       /\ TupleLeq(a, b)
       /\ conv = [pc |-> "input", t1 |-> a, t2 |-> b, d1 |-> <<>>, d2 |-> <<>>]

ConvertFirst ==
  /\ conv.pc = "input"
  /\ conv' = [conv EXCEPT !.pc = "first", !.d1 = standard_to_decimal(conv.t1)]
  /\ UNCHANGED progv

ConvertSecond ==
  /\ conv.pc = "first"
  /\ conv' = [conv EXCEPT !.pc = "both", !.d2 = standard_to_decimal(conv.t2)]
  /\ UNCHANGED progv

NextConv == ConvertFirst \/ ConvertSecond

SpecConv == InitConv /\ [][NextConv]_vars

(***************************************************************************)
(* The event loop: futures, task steps and callbacks.                      *)
(***************************************************************************)

\* a tick task t ends in state s: its done callbacks are scheduled
FinishTick(t, s) ==
  /\ tpc' = [tpc EXCEPT ![t] = s]
  /\ ready' = IF t \in cbs THEN Append(ready, DoneCb(t)) ELSE ready
  /\ exec' = "loop"

\* the event loop runs the first step of a tick task: Clock.do_tick starts,
\* unless the task was cancelled before it ever ran
TickStart ==
  /\ phase \in {"run", "cleanup"} /\ exec = "loop"
  /\ ready # <<>> /\ Head(ready) \in Tasks
  /\ LET t == Head(ready) IN
       IF t \in tcancel
       THEN /\ tpc' = [tpc EXCEPT ![t] = "cancelled"]
            /\ ready' = IF t \in cbs THEN Append(Tail(ready), DoneCb(t)) ELSE Tail(ready)
            /\ exec' = "loop"
       ELSE /\ tpc' = [tpc EXCEPT ![t] = "tick"]
            /\ ready' = Tail(ready)
            /\ exec' = t
  /\ UNCHANGED <<envv, procv, timer, fut, mainv, tcancel, cbs, ct, clockv, outv, conv>>

\* Clock.tick: read the wall clock
tick ==
  /\ exec \in Tasks /\ tpc[exec] = "tick"
  /\ ct' = [ct EXCEPT ![exec] = TimeLine[now]]
  /\ tpc' = [tpc EXCEPT ![exec] = "gap"]
  /\ UNCHANGED <<envv, procv, loopq, mainv, tcancel, cbs, clockv, outv, conv>>

\* Clock.do_tick: tick() returned, the else clause calls update(ct)
do_tick ==
  /\ exec \in Tasks /\ tpc[exec] = "gap"
  /\ tpc' = [tpc EXCEPT ![exec] = "update"]
  /\ UNCHANGED <<envv, procv, loopq, mainv, tcancel, cbs, ct, clockv, outv, conv>>

\* the value Clock.update leaves in current_time
updated_time(old, new) == IF new # old THEN new ELSE old

\* Clock.update
update ==
  /\ exec \in Tasks /\ tpc[exec] = "update"
  /\ current_time' = [current_time EXCEPT ![exec] = updated_time(@, ct[exec])]
  /\ tpc' = [tpc EXCEPT ![exec] = "updated"]
  /\ UNCHANGED <<envv, procv, loopq, mainv, tcancel, cbs, ct, now, outv, conv>>

\* Clock.do_tick returns: the tick task is done
TickReturn ==
  /\ exec \in Tasks /\ tpc[exec] = "updated"
  /\ FinishTick(exec, "ok")
  /\ UNCHANGED <<envv, procv, timer, fut, mainv, tcancel, cbs, ct, clockv, outv, conv>>

\* what a shield's outer future becomes when its inner task ended in state s
OuterOf(s) ==
  IF s = "ok" THEN "result" ELSE IF s = "cancelled" THEN "cancelled" ELSE "exception"

\* asyncio.shield's callback on the inner task: pass the outcome to the outer
\* future, which wakes the main task, unless the outer is cancelled already
InnerDone ==
  /\ phase \in {"run", "cleanup"} /\ exec = "loop"
  /\ ready # <<>> /\ Head(ready) \in {DoneCb(t) : t \in Tasks}
  /\ LET t == CHOOSE u \in Tasks : DoneCb(u) = Head(ready) IN
       IF fut[Outer(t)] = "pending"
       THEN /\ fut' = [fut EXCEPT ![Outer(t)] = OuterOf(tpc[t])]
            /\ ready' = Append(Tail(ready), "main")
       ELSE /\ fut' = fut
            /\ ready' = Tail(ready)
  /\ UNCHANGED <<envv, procv, exec, timer, mainv, tickv, clockv, outv, conv>>

\* the timer of asyncio.sleep(0.2) expires
TimerFire ==
  /\ phase \in {"run", "cleanup"} /\ exec = "loop"
  /\ timer /\ fut["sleep"] = "pending"
  /\ fut' = [fut EXCEPT !["sleep"] = "result"]
  /\ ready' = Append(ready, "main")
  /\ timer' = FALSE
  /\ UNCHANGED <<envv, procv, exec, mainv, tickv, clockv, outv, conv>>

(***************************************************************************)
(* main()                                                                  *)
(***************************************************************************)

\* the first step of the main task
MainStart ==
  /\ phase \in {"run", "cleanup"} /\ exec = "loop"
  /\ ready # <<>> /\ Head(ready) = "main" /\ mpc = "start"
  /\ ready' = Tail(ready)
  /\ IF must_cancel
     THEN /\ mpc' = "done" /\ mres' = "cancelled" /\ must_cancel' = FALSE
          /\ exec' = "loop"
     ELSE /\ mpc' = "init" /\ mres' = mres /\ must_cancel' = must_cancel
          /\ exec' = "main"
  /\ UNCHANGED <<envv, procv, timer, fut, mexc, waiting, tickv, clockv, outv, conv>>

\* standard_clock = Clock(); decimal_clock = DecimalClock()
MainInit ==
  /\ exec = "main" /\ mpc = "init"
  /\ mpc' = "spawn"
  /\ current_time' = [t \in Tasks |-> <<>>]
  /\ UNCHANGED <<envv, procv, loopq, mexc, mres, waiting, must_cancel, tickv, now, outv, conv>>

\* top of the while loop: ensure_future schedules both tick tasks
Spawn ==
  /\ exec = "main" /\ mpc = "spawn"
  /\ tpc' = [t \in Tasks |-> "pending"]
  /\ tcancel' = {} /\ cbs' = {}
  /\ ct' = [t \in Tasks |-> <<>>]
  /\ ready' = ready \o <<"std", "dec">>
  /\ fut' = [fut EXCEPT !["outer_std"] = "none", !["outer_dec"] = "none"]
  /\ mpc' = "try_std"
  /\ cyc_renders' = 0
  /\ post_spawns' = IF interrupts > 0 THEN post_spawns + 1 ELSE post_spawns
  /\ UNCHANGED <<envv, procv, exec, timer, mexc, mres, waiting, must_cancel, clockv,
                 line, line_src, line_ticks, post_renders, conv>>

\* main()'s position once the await of tick task t has returned
AfterAwait(t) == IF t = "std" THEN "try_dec" ELSE "finally"

\* await asyncio.shield(tick task): a finished task is awaited directly and
\* does not suspend main; otherwise main suspends on the shield's outer future,
\* which a pending cancellation request cancels at once
MainAwait ==
  /\ exec = "main" /\ mpc \in {"try_std", "try_dec"}
  /\ LET t == IF mpc = "try_std" THEN "std" ELSE "dec" IN
       IF TaskDone(tpc[t])
       THEN /\ IF tpc[t] = "ok"
               THEN mpc' = AfterAwait(t) /\ mexc' = "none"
               ELSE mpc' = "finally" /\ mexc' = "Cancelled"
            /\ UNCHANGED <<exec, ready, fut, waiting, must_cancel, cbs>>
       ELSE /\ mpc' = IF t = "std" THEN "wait_std" ELSE "wait_dec"
            /\ mexc' = mexc
            /\ cbs' = cbs \cup {t}
            /\ waiting' = Outer(t)
            /\ exec' = "loop"
            /\ IF must_cancel
               THEN /\ fut' = [fut EXCEPT ![Outer(t)] = "cancelled"]
                    /\ ready' = Append(ready, "main")
                    /\ must_cancel' = FALSE
               ELSE /\ fut' = [fut EXCEPT ![Outer(t)] = "pending"]
                    /\ ready' = ready
                    /\ must_cancel' = must_cancel
  /\ UNCHANGED <<envv, procv, timer, mres, tpc, tcancel, ct, clockv, outv, conv>>

\* the event loop wakes the main task on the future it waits for
MainResume ==
  /\ phase \in {"run", "cleanup"} /\ exec = "loop"
  /\ ready # <<>> /\ Head(ready) = "main"
  /\ mpc \in {"wait_std", "wait_dec", "sleeping"}
  /\ ready' = Tail(ready)
  /\ waiting' = "none"
  /\ must_cancel' = FALSE
  /\ LET out == IF must_cancel THEN "cancelled" ELSE fut[waiting] IN
       IF mpc = "sleeping"
       THEN /\ mpc' = "done"
            /\ mres' = IF out = "result" THEN "return" ELSE "cancelled"
            /\ mexc' = mexc
            /\ exec' = "loop"
       ELSE /\ IF out = "result"
               THEN mpc' = AfterAwait(IF mpc = "wait_std" THEN "std" ELSE "dec")
                    /\ mexc' = "none"
               ELSE mpc' = "finally" /\ mexc' = "Cancelled"
            /\ mres' = mres
            /\ exec' = "main"
  /\ UNCHANGED <<envv, procv, timer, fut, tickv, clockv, outv, conv>>

\* AfterFinally with break in place of continue
AfterFinally_mut(exc) == "grace"

\* main()'s position after the finally block: continue, or the handler of
\* the CancelledError in flight
AfterFinally(exc) == IF exc = "none" THEN "spawn" ELSE "grace"

\* the finally block: print both clocks; str(decimal_clock) raises
\* IndexError while decimal_clock.current_time is still ()
Render ==
  /\ exec = "main" /\ mpc = "finally"
  /\ IF str_raises(current_time["dec"])
     THEN /\ mpc' = "done" /\ mres' = "IndexError" /\ exec' = "loop"
          /\ UNCHANGED outv
     ELSE /\ line' = [std |-> Clock_str(current_time["std"]),
                      dec |-> decimal_str(current_time["dec"])]
          /\ line_src' = current_time
          /\ line_ticks' = tpc
          /\ cyc_renders' = cyc_renders + 1
          /\ post_renders' = IF interrupts > 0 THEN post_renders + 1 ELSE post_renders
          /\ post_spawns' = post_spawns
          /\ mpc' = AfterFinally(mexc) /\ mres' = mres /\ exec' = exec
  /\ mexc' = "none"
  /\ UNCHANGED <<envv, procv, ready, timer, fut, waiting, must_cancel, tickv, clockv, conv>>

\* except asyncio.CancelledError: await asyncio.sleep(0.2)
Grace ==
  /\ exec = "main" /\ mpc = "grace"
  /\ mpc' = "sleeping"
  /\ waiting' = "sleep"
  /\ exec' = "loop"
  /\ IF must_cancel
     THEN /\ fut' = [fut EXCEPT !["sleep"] = "cancelled"]
          /\ ready' = Append(ready, "main")
          /\ timer' = FALSE
          /\ must_cancel' = FALSE
     ELSE /\ fut' = [fut EXCEPT !["sleep"] = "pending"]
          /\ ready' = ready
          /\ timer' = TRUE
          /\ must_cancel' = must_cancel
  /\ UNCHANGED <<envv, procv, mexc, mres, tickv, clockv, outv, conv>>

(***************************************************************************)
(* Interrupts, asyncio.run and the module's try statement.                 *)
(***************************************************************************)

\* Task.cancel() on the main task, which is in position p with the ready
\* queue q: a pending future it waits for is cancelled (which wakes it),
\* otherwise the request is kept for its next step
CancelMain(p, q) ==
  IF p = "done"
  THEN /\ fut' = fut /\ ready' = q /\ timer' = timer /\ must_cancel' = must_cancel
  ELSE IF waiting # "none" /\ fut[waiting] = "pending"
  THEN /\ fut' = [fut EXCEPT ![waiting] = "cancelled"]
       /\ ready' = Append(q, "main")
       /\ timer' = IF waiting = "sleep" THEN FALSE ELSE timer
       /\ must_cancel' = must_cancel
  ELSE /\ fut' = fut /\ ready' = q /\ timer' = timer
       /\ must_cancel' = TRUE

\* asyncio.run's shutdown: cancel every task that is not done
CancelAll(p, q, tp) ==
  /\ CancelMain(p, q)
  /\ tcancel' = tcancel \cup {t \in Tasks : tp[t] = "pending"}

\* the first SIGINT under asyncio.run's own handler: the main task is cancelled
SigintCancel ==
  /\ phase = "run" /\ runner = "sigint" /\ interrupts = 0
  /\ interrupts < MaxInterrupts
  /\ mpc # "done"
  /\ interrupts' = interrupts + 1
  /\ CancelMain(mpc, ready)
  /\ UNCHANGED <<runner, procv, exec, mpc, mexc, mres, waiting, tickv, clockv, outv, conv>>

\* SIGINT raises KeyboardInterrupt in whatever the thread executes
RaisesKI ==
  /\ phase \in {"run", "cleanup"}
  /\ interrupts < MaxInterrupts
  /\ runner = "legacy" \/ interrupts > 0

\* KeyboardInterrupt inside the try blocks of tick() or update(): do_tick
\* raises CancelledError and its task ends cancelled
InterruptTick ==
  /\ RaisesKI
  /\ exec \in Tasks /\ tpc[exec] \in {"tick", "update", "updated"}
  /\ interrupts' = interrupts + 1
  /\ FinishTick(exec, "cancelled")
  /\ UNCHANGED <<runner, procv, timer, fut, mainv, tcancel, cbs, ct, clockv, outv, conv>>

\* KeyboardInterrupt inside main()'s inner try block: the handler raises
\* CancelledError, and the finally block runs
InterruptTry ==
  /\ RaisesKI
  /\ exec = "main" /\ mpc \in {"try_std", "try_dec"}
  /\ interrupts' = interrupts + 1
  /\ mpc' = "finally" /\ mexc' = "Cancelled"
  /\ UNCHANGED <<runner, procv, loopq, mres, waiting, must_cancel, tickv, clockv, outv, conv>>

\* KeyboardInterrupt where no handler catches it: in the event loop itself,
\* in do_tick between tick() and update(), or in main() outside the inner
\* try block.  The running task ends with it and it leaves the event loop;
\* asyncio.run cancels the remaining tasks and runs the loop until they are
\* done, or, when already doing that, gives up.
InterruptEscapes ==
  /\ RaisesKI
  /\ \/ exec = "loop"
     \/ exec \in Tasks /\ tpc[exec] = "gap"
     \/ exec = "main" /\ mpc \in {"init", "spawn", "finally", "grace"}
  /\ interrupts' = interrupts + 1
  /\ LET p  == IF exec = "main" THEN "done" ELSE mpc
         tp == IF exec \in Tasks THEN [tpc EXCEPT ![exec] = "failed"] ELSE tpc
         q  == IF exec \in Tasks /\ exec \in cbs THEN Append(ready, DoneCb(exec)) ELSE ready
     IN  /\ mpc' = p
         /\ mres' = IF exec = "main" THEN "KI" ELSE mres
         /\ tpc' = tp
         /\ exec' = "loop"
         /\ pexc' = "KI"
         /\ IF phase = "run"
            THEN phase' = "cleanup" /\ CancelAll(p, q, tp)
            ELSE /\ phase' = "module"
                 /\ ready' = q
                 /\ UNCHANGED <<fut, timer, must_cancel, tcancel>>
  /\ UNCHANGED <<runner, exit_status, surfaced, mexc, waiting, cbs, ct, clockv, outv, conv>>

\* the exception run_until_complete(main) raises for a main task that ended as r
RunResult(r) ==
  IF r = "IndexError" THEN "IndexError"
  ELSE IF r = "cancelled" THEN "CancelledError"
  ELSE "none"

\* the main task is done and the event loop has run what was ready: asyncio.run
\* goes on to its shutdown
FinishRun ==
  /\ phase = "run" /\ exec = "loop" /\ mpc = "done" /\ ready = <<>>
  /\ phase' = "cleanup"
  /\ pexc' = RunResult(mres)
  /\ CancelAll(mpc, ready, tpc)
  /\ UNCHANGED <<envv, exit_status, surfaced, exec, conv,
                 mpc, mexc, mres, waiting, tpc, cbs, ct, clockv, outv>>

\* every task is done: asyncio.run closes the loop and returns or raises
FinishCleanup ==
  /\ phase = "cleanup" /\ exec = "loop" /\ mpc = "done" /\ ready = <<>>
  /\ phase' = "module"
  /\ UNCHANGED <<envv, pexc, exit_status, surfaced, loopq, mainv, tickv, clockv, outv, conv>>

\* module_exit with sys.exit() after the try statement, not in its finally
module_exit_mut(exc) ==
  IF exc \in {"none", "KI"} THEN [status |-> 0, surfaced |-> "none"]
  ELSE [status |-> 1, surfaced |-> exc]

\* how the process ends when asyncio.run left with exception exc: the module
\* catches KeyboardInterrupt, and sys.exit() in its finally clause replaces
\* any other exception with SystemExit
module_exit(exc) == [status |-> 0, surfaced |-> "none"]

\* try: asyncio.run(main()) except KeyboardInterrupt: pass finally: sys.exit()
ModuleExit ==
  /\ phase = "module"
  /\ phase' = "exited"
  /\ exit_status' = module_exit(pexc).status
  /\ surfaced' = module_exit(pexc).surfaced
  /\ pexc' = "none"
  /\ UNCHANGED <<envv, loopq, mainv, tickv, clockv, outv, conv>>

\* time passes
AdvanceTime ==
  /\ phase \in {"run", "cleanup"}
  /\ \E n \in (now + 1)..Len(TimeLine) : now' = n
  /\ UNCHANGED <<envv, procv, loopq, mainv, tickv, current_time, outv, conv>>

Step ==
  \/ TickStart \/ tick \/ do_tick \/ update \/ TickReturn
  \/ InnerDone \/ TimerFire
  \/ MainStart \/ MainInit \/ Spawn \/ MainAwait \/ MainResume \/ Render \/ Grace
  \/ FinishRun \/ FinishCleanup \/ ModuleExit

Interrupt == SigintCancel \/ InterruptTick \/ InterruptTry \/ InterruptEscapes

Next == Step \/ Interrupt \/ AdvanceTime

Spec == Init /\ [][Next]_vars

\* the thread keeps running: the event loop and the tasks take their steps
LiveSpec == Spec /\ WF_vars(Step)

(***************************************************************************)
(* Properties of the conversion, under SpecConv.                           *)
(***************************************************************************)
Converted1 == conv.pc \in {"first", "both"}

Converted2 == conv.pc = "both"

InRange(d) == d[1] \in 0..9 /\ d[2] \in 0..99 /\ d[3] \in 0..99

\* C1: for two standard times t1 < t2 of one day, standard_to_decimal(t1) is
\* lexicographically less than or equal to standard_to_decimal(t2).
C1_Monotonic ==
  (Converted2 /\ TupleLess(conv.t1, conv.t2)) => TupleLeq(conv.d1, conv.d2)

\* two readings that differ only in the microsecond and fall in successive
\* decimal seconds
C1_Witness ==
  /\ Converted2
  /\ conv.t1 = <<0, 1, 40, 224000>> /\ conv.t2 = <<0, 1, 40, 999999>>
  /\ TupleLess(conv.d1, conv.d2)

\* The triple of the specification's formula in exact arithmetic.  With
\* x = ((hour*60 + minute)*60 + second)*10^6 + microsecond the formula's T is
\* x / 864000, so floor(T) = floor(floor(x / 8000) / 108) and
\* floor(x / 8000) = seconds*125 + floor(microsecond / 8000).
ExactDecimal(t) ==
  LET secs == (t[1] * 60 + t[2]) * 60 + t[3]
      T    == (secs * 125 + t[4] \div 8000) \div 108
      h    == T \div 10000
      m    == (T - h * 10000) \div 100
  IN  <<h, m, T - h * 10000 - m * 100>>

\* C2: for every standard time t, standard_to_decimal(t) is the triple
\* obtained from T = (hour*3600 + minute*60 + second + microsecond/1000000)
\* * 100000/86400 by decimalHour = floor(T/10000), decimalMinute =
\* floor((T - decimalHour*10000)/100), decimalSecond = floor(T -
\* decimalHour*10000 - decimalMinute*100); midnight gives (0,0,0), midday
\* (5,0,0) and (23,59,59,999999) gives (9,99,99).
C2_Formula ==
  /\ Converted1 => conv.d1 = ExactDecimal(conv.t1)
  /\ Converted2 => conv.d2 = ExactDecimal(conv.t2)
  /\ (Converted1 /\ conv.t1 = <<0, 0, 0, 0>>) => conv.d1 = <<0, 0, 0>>
  /\ (Converted1 /\ conv.t1 = <<12, 0, 0, 0>>) => conv.d1 = <<5, 0, 0>>
  /\ (Converted1 /\ conv.t1 = <<23, 59, 59, 999999>>) => conv.d1 = <<9, 99, 99>>

\* C3: for every standard time of a day, standard_to_decimal returns a
\* decimal hour in 0..9, a decimal minute in 0..99 and a decimal second in
\* 0..99.
C3_Range ==
  /\ Converted1 => InRange(conv.d1)
  /\ Converted2 => InRange(conv.d2)

\* the last microsecond of the day is converted to the last decimal second
C3_Witness ==
  /\ Converted1
  /\ conv.t1 = <<23, 59, 59, 999999>>
  /\ conv.d1 = <<9, 99, 99>>

(***************************************************************************)
(* Properties of the display loop, under Spec and LiveSpec.                *)
(***************************************************************************)
Rendered == line # NoLine

\* main() has left the while loop
Stopped == mpc \in {"grace", "sleeping", "done"}

\* C4: whenever a clock is formatted, the standard clock's string has
\* exactly 8 characters and the decimal clock's string exactly 9.
C4_Lengths == Rendered => (Len(line.std) = 8 /\ Len(line.dec) = 9)

C6_RunsUntilInterrupt ==
  /\ [](interrupts = 0 => (~Stopped /\ phase = "run"))
  /\ [][(mpc = "finally" /\ mpc' # "finally" /\ interrupts' = 0) => mpc' = "spawn"]_vars
  /\ (mpc = "spawn" /\ Rendered) ~> (mpc = "try_std" \/ interrupts > 0)
  /\ [][Stopped => (Stopped' /\ \A t \in Tasks : tpc'[t] = "pending" => tpc[t] = "pending")]_vars

\* a second cycle is under way and no interrupt was delivered
C6_Witness == interrupts = 0 /\ Rendered /\ mpc = "wait_std"

\* C7: in every rendered line the DECIMAL field is the decimal conversion of
\* the very sample shown in the STANDARD field of that line.
C7_SameSample ==
  (Rendered /\ Len(line_src["std"]) = 4) => line.dec = decimal_str(line_src["std"])

\* C8: every cycle renders the output line exactly once, after both tick
\* tasks of that cycle have completed, whether or not a clock's retained
\* tuple changed.
C8_RenderOnce ==
  /\ Rendered => \A t \in Tasks : TaskDone(line_ticks[t])
  /\ cyc_renders <= 1
  /\ (mpc = "spawn" /\ tpc["std"] # "none") => cyc_renders = 1

\* C9: after an interrupt at most one more output line is rendered before
\* the process exits, and no new pair of tick tasks is started.
C9_AtMostOne == post_renders <= 1 /\ post_spawns = 0

\* C10: whenever the output line is rendered, both clocks hold a sampled
\* 4-tuple, and formatting the decimal clock never indexes an empty tuple.
C10_Sampled ==
  /\ mres # "IndexError"
  /\ Rendered => \A t \in Tasks : Len(line_src[t]) = 4

====
